---- MODULE Spec2Model ----
(***************************************************************************)
(* Inbox / Backlog item store of andmohiko/inbox: the Prisma `items` table *)
(* as driven by the server actions of src/app/actions/inbox.ts and         *)
(* src/app/actions/backlog.ts, the status helpers of src/app/utils and     *)
(* src/types, and the client hooks useInboxItems, useBacklogItems and      *)
(* useItemCreation with the calls they have pending.                       *)
(*                                                                         *)
(* Time is a tick counter; a calendar day is TicksPerDay consecutive       *)
(* ticks.  A 'YYYY-MM-DD' string is modelled by its day number, a Date by  *)
(* its tick.                                                               *)
(***************************************************************************)
EXTENDS Integers, Sequences, FiniteSets, TLC

\* ----------------------------------------------------------------- bounds
\* The last tick of the clock and the largest order value explored.
MaxTime == 2
MaxOrder == 1

\* ------------------------------------------------------- program constants
TicksPerDay == 2
NULL == -1

Users == {"u1"}
NoUser == "unauthenticated"

ItemStatus == {"TODO", "IN_PROGRESS", "IN_REVIEW", "DONE"}
InboxItemStatus == {"not_started", "in_progress", "completed"}

\* Titles are sequences of characters, so that trim() is computed.
RawTitles == {<< >>, <<" ">>, <<" ", "a", " ">>}

Ticks == 0..MaxTime
Days == 0..(MaxTime \div TicksPerDay)
\* Dates a list can be asked for: up to one day past the clock's last tick.
ViewTicks == 0..(MaxTime + TicksPerDay)

\* items: the rows of the `items` table, in creation order (id = position).
\* now:   the clock read by `new Date()` and `dayjs()`.
\* last:  the request served at the current tick, if any, and its outcome:
\*        the operation, its id, status and date arguments, the row its
\*        existence check found (existingItem) and the error it threw.
\* inflight: per client process, the server action it has called that is
\*        suspended at an `await` between its read of the table and its write.
\* call:  the session user and the title argument of the request in `last`,
\*        kept by the specifications whose properties speak of them.
\* assigned: the <<owner, list, order>> triples given out by the create and
\*        move operations so far, kept by the specification of the orders.
\* hook:  the React state of the client hooks that are mounted: the fields
\*        of useInboxItems and useBacklogItems, or those of useItemCreation.
VARIABLES items, now, last, inflight, call, assigned, hook

vars == <<items, now, last, inflight, call, assigned, hook>>

\* ------------------------------------------------------------ dayjs helpers
startOfDay(t) == (t \div TicksPerDay) * TicksPerDay
endOfDay(t) == startOfDay(t) + (TicksPerDay - 1)
formatDate(t) == t \div TicksPerDay
parseDate(d) == d * TicksPerDay

\* ------------------------------------------------------------- String.trim
RECURSIVE trimStart(_)
trimStart(s) ==
    IF s = << >> THEN << >>
    ELSE IF Head(s) = " " THEN trimStart(Tail(s)) ELSE s

RECURSIVE trimEnd(_)
trimEnd(s) ==
    IF s = << >> THEN << >>
    ELSE IF s[Len(s)] = " " THEN trimEnd(SubSeq(s, 1, Len(s) - 1)) ELSE s

trim(s) == trimEnd(trimStart(s))

\* `!title || title.trim().length === 0`
titleInvalid(title) == title = << >> \/ Len(trim(title)) = 0

\* ------------------------------------------------------------ status maps
mapItemStatusToUI(status) ==
    CASE status = "TODO" -> "not_started"
      [] status = "IN_PROGRESS" -> "in_progress"
      [] status = "IN_REVIEW" -> "in_progress"
      [] status = "DONE" -> "completed"
      [] OTHER -> "not_started"

\* mapUIToItemStatus with 'in_progress' stored as IN_REVIEW.
mapUIToItemStatus_InReview(status) ==
    CASE status = "not_started" -> "TODO"
      [] status = "in_progress" -> "IN_REVIEW"
      [] status = "completed" -> "DONE"
      [] OTHER -> "TODO"
mapUIToItemStatus(status) ==
    CASE status = "not_started" -> "TODO"
      [] status = "in_progress" -> "IN_PROGRESS"
      [] status = "completed" -> "DONE"
      [] OTHER -> "TODO"

statusOrder == <<"not_started", "in_progress", "completed">>

\* Array.prototype.indexOf: 0-based, -1 when absent.
indexOf(arr, x) ==
    IF \E k \in 1..Len(arr) : arr[k] = x
    THEN (CHOOSE k \in 1..Len(arr) :
              arr[k] = x /\ \A j \in 1..(k - 1) : arr[j] # x) - 1
    ELSE 0 - 1

getNextStatus(currentStatus) ==
    LET currentIndex == indexOf(statusOrder, currentStatus)
        nextIndex == (currentIndex + 1) % Len(statusOrder)
    IN statusOrder[nextIndex + 1]

\* ------------------------------------------------------------------ store
ItemIds == 1..Len(items)

\* prisma.item.findFirst({ where: { id, userId, deletedAt: null } })
ownedLive(userId, id) ==
    /\ id \in ItemIds
    /\ items[id].userId = userId
    /\ items[id].deletedAt = NULL

\* findMany({where: {userId, dueDate: {gte, lte}, deletedAt: null}}) ids
dueOn(userId, start, end) ==
    {i \in ItemIds :
        /\ items[i].userId = userId
        /\ items[i].deletedAt = NULL
        /\ items[i].dueDate # NULL
        /\ items[i].dueDate >= start
        /\ items[i].dueDate <= end}

\* backlogIds without the `deletedAt: null` condition.
backlogIds_WithDeleted(userId) ==
    {i \in ItemIds :
        /\ items[i].userId = userId
        /\ items[i].dueDate = NULL}

\* findMany({where: {userId, dueDate: null, deletedAt: null}}) ids
backlogIds(userId) ==
    {i \in ItemIds :
        /\ items[i].userId = userId
        /\ items[i].deletedAt = NULL
        /\ items[i].dueDate = NULL}

\* nextOrder taking the maximum itself, without the `+ 1`.
nextOrder_NoIncrement(ids) ==
    IF ids = {} THEN 0
    ELSE CHOOSE m \in {items[i].order : i \in ids} :
             \A i \in ids : items[i].order <= m

\* orderBy order desc, take 1; then `length > 0 ? [0].order + 1 : 0`
nextOrder(ids) ==
    IF ids = {} THEN 0
    ELSE (CHOOSE m \in {items[i].order : i \in ids} :
              \A i \in ids : items[i].order <= m) + 1

\* An item as returned to the client (InboxItem; BacklogItem has no date).
inboxDateString(item, date) ==
    IF item.completedAt # NULL THEN formatDate(date)
    ELSE IF item.dueDate # NULL THEN formatDate(item.dueDate)
    ELSE formatDate(date)

\* inboxWhere with the carry-forward branch missing its `status: { not: 'DONE' }`.
inboxWhere_CarryCompleted(userId, date) ==
    LET displayDateStart == startOfDay(date)
        displayDateEnd == endOfDay(date)
    IN {i \in ItemIds :
           /\ items[i].userId = userId
           /\ items[i].deletedAt = NULL
           /\ \/ /\ items[i].dueDate # NULL
                 /\ items[i].dueDate >= displayDateStart
                 /\ items[i].dueDate <= displayDateEnd
              \/ /\ items[i].dueDate # NULL
                 /\ items[i].dueDate < displayDateStart
              \/ /\ items[i].completedAt # NULL
                 /\ items[i].completedAt >= displayDateStart
                 /\ items[i].completedAt <= displayDateEnd}

\* The `where` of getInboxItems: ids of the rows findMany returns.
inboxWhere(userId, date) ==
    LET displayDateStart == startOfDay(date)
        displayDateEnd == endOfDay(date)
    IN {i \in ItemIds :
           /\ items[i].userId = userId
           /\ items[i].deletedAt = NULL
           /\ \/ /\ items[i].dueDate # NULL
                 /\ items[i].dueDate >= displayDateStart
                 /\ items[i].dueDate <= displayDateEnd
              \/ /\ items[i].dueDate # NULL
                 /\ items[i].dueDate < displayDateStart
                 /\ items[i].status # "DONE"
              \/ /\ items[i].completedAt # NULL
                 /\ items[i].completedAt >= displayDateStart
                 /\ items[i].completedAt <= displayDateEnd}

\* getInboxItems(date) for the session user: the rows, mapped.
getInboxItems(userId, date) ==
    {[id |-> i,
      title |-> items[i].title,
      status |-> mapItemStatusToUI(items[i].status),
      date |-> inboxDateString(items[i], date),
      order |-> items[i].order] : i \in inboxWhere(userId, date)}

\* getBacklogItems() for the session user: the rows, mapped.
getBacklogItems(userId) ==
    {[id |-> i,
      title |-> items[i].title,
      status |-> mapItemStatusToUI(items[i].status),
      order |-> items[i].order] : i \in backlogIds(userId)}

\* The sequences that put the rows `ids` in an order findMany can return
\* them in; rows of equal order come in either order.
isPermutation(s, ids) ==
    /\ \A i \in ids : \E k \in DOMAIN s : s[k] = i
    /\ \A k, l \in DOMAIN s : s[k] = s[l] => k = l

\* orderByDesc sorting the other way.
orderByDesc_Ascending(ids) ==
    {s \in [1..Cardinality(ids) -> ids] :
        /\ isPermutation(s, ids)
        /\ \A k \in 1..(Len(s) - 1) : items[s[k]].order <= items[s[k + 1]].order}

\* orderBy: { order: 'desc' }
orderByDesc(ids) ==
    {s \in [1..Cardinality(ids) -> ids] :
        /\ isPermutation(s, ids)
        /\ \A k \in 1..(Len(s) - 1) : items[s[k]].order >= items[s[k + 1]].order}

\* orderByAsc sorting the other way.
orderByAsc_Descending(ids) ==
    {s \in [1..Cardinality(ids) -> ids] :
        /\ isPermutation(s, ids)
        /\ \A k \in 1..(Len(s) - 1) : items[s[k]].order >= items[s[k + 1]].order}

\* orderBy: { order: 'asc' }
orderByAsc(ids) ==
    {s \in [1..Cardinality(ids) -> ids] :
        /\ isPermutation(s, ids)
        /\ \A k \in 1..(Len(s) - 1) : items[s[k]].order <= items[s[k + 1]].order}

\* The ids of getBacklogItems() and of getInboxItems(date), in result order:
\* every array the call can return.
backlogResults(userId) == orderByDesc(backlogIds(userId))
inboxResults(userId, date) == orderByAsc(inboxWhere(userId, date))

\* ---------------------------------------------------------------- inputs
Callers == Users \cup {NoUser}
\* The lifecycle specification follows one row: rows interact only through
\* the order values the add and move operations compute.
IdInputs == {1}
\* `dueDate?: Date | string`: NULL is the omitted argument.
DateInputs == Ticks \cup {NULL}
PatchKeys == {"title", "status", "date", "order"}
\* Partial<Pick<InboxItem, ...>>: `keys` are the fields that are not undefined;
\* a field outside `keys` holds a filler that is never read.  The patches
\* explored carry at most one field: the fields of updateData are written
\* independently of each other, so a patch of several fields leaves the row a
\* sequence of one-field patches at the same tick leaves.
Updates(allowed) ==
    {p \in [keys : SUBSET allowed, title : RawTitles,
            status : InboxItemStatus, date : Days, order : 0..MaxOrder] :
        /\ Cardinality(p.keys) <= 1
        /\ ("title" \notin p.keys => p.title = << >>)
        /\ ("status" \notin p.keys => p.status = "not_started")
        /\ ("date" \notin p.keys => p.date = 0)
        /\ ("order" \notin p.keys => p.order = 0)}
InboxUpdates == Updates(PatchKeys)
BacklogUpdates == Updates({"title", "status", "order"})

requestedStatus(updates) ==
    IF "status" \in updates.keys THEN updates.status ELSE "none"

\* The row a findFirst returned, as a sequence of at most one row.
found(cond, id) == IF cond THEN <<items[id]>> ELSE << >>

reply(op, id, status, date, existing, error) ==
    [op |-> op, id |-> id, status |-> status, date |-> date,
     existingItem |-> existing, error |-> error]

\* ------------------------------------------------- actions/inbox.ts
addInboxItemError(user, title) ==
    IF user = NoUser THEN "AuthenticationRequired"
    ELSE IF titleInvalid(title) THEN "ValidationError"
    ELSE "none"

addInboxItem(user, title, dueDate) ==
    LET targetDueDate ==
            IF dueDate # NULL THEN startOfDay(dueDate) ELSE startOfDay(now)
        existing == dueOn(user, startOfDay(targetDueDate), endOfDay(targetDueDate))
        newOrder == nextOrder(existing)
        error == addInboxItemError(user, title)
    IN /\ items' =
            IF error # "none" THEN items
            ELSE Append(items,
                    [userId |-> user, title |-> trim(title),
                     dueDate |-> targetDueDate, status |-> "TODO",
                     order |-> newOrder, completedAt |-> NULL,
                     deletedAt |-> NULL])
       /\ last' = reply("addInboxItem",
                        IF error = "none" THEN Len(items) + 1 ELSE 0,
                        "none", dueDate, << >>, error)
       /\ UNCHANGED now

\* updateInboxItemError testing `!updates.title` only, without trim().
updateInboxItemError_NoTrim(user, id, updates) ==
    IF user = NoUser THEN "AuthenticationRequired"
    ELSE IF "title" \in updates.keys /\ updates.title = << >>
         THEN "ValidationError"
    ELSE IF ~ownedLive(user, id) THEN "NotFound"
    ELSE "none"

updateInboxItemError(user, id, updates) ==
    IF user = NoUser THEN "AuthenticationRequired"
    ELSE IF "title" \in updates.keys /\ titleInvalid(updates.title)
         THEN "ValidationError"
    ELSE IF ~ownedLive(user, id) THEN "NotFound"
    ELSE "none"

\* inboxUpdateData without the else branch that clears completedAt.
inboxUpdateData_NoClear(item, updates) ==
    LET newStatus == mapUIToItemStatus(updates.status)
    IN [item EXCEPT
          !.title = IF "title" \in updates.keys THEN trim(updates.title) ELSE @,
          !.status = IF "status" \in updates.keys THEN newStatus ELSE @,
          !.completedAt =
              IF "status" \in updates.keys /\ newStatus = "DONE" THEN now ELSE @,
          !.dueDate =
              IF "date" \in updates.keys
              THEN startOfDay(parseDate(updates.date)) ELSE @,
          !.order = IF "order" \in updates.keys THEN updates.order ELSE @]

\* prisma.item.update({ where: { id }, data: updateData })
inboxUpdateData(item, updates) ==
    LET newStatus == mapUIToItemStatus(updates.status)
    IN [item EXCEPT
          !.title = IF "title" \in updates.keys THEN trim(updates.title) ELSE @,
          !.status = IF "status" \in updates.keys THEN newStatus ELSE @,
          !.completedAt =
              IF "status" \in updates.keys
              THEN (IF newStatus = "DONE" THEN now ELSE NULL)
              ELSE @,
          !.dueDate =
              IF "date" \in updates.keys
              THEN startOfDay(parseDate(updates.date)) ELSE @,
          !.order = IF "order" \in updates.keys THEN updates.order ELSE @]

\* The handler, reported under the name of the entry point that ran it.
updateInboxItemAs(op, user, id, updates) ==
    LET error == updateInboxItemError(user, id, updates)
    IN /\ items' =
            IF error # "none" THEN items
            ELSE [items EXCEPT ![id] = inboxUpdateData(@, updates)]
       /\ last' = reply(op, id, requestedStatus(updates), NULL,
                        found(error \in {"none"}, id), error)
       /\ UNCHANGED now

updateInboxItem(user, id, updates) ==
    updateInboxItemAs("updateInboxItem", user, id, updates)

\* moveInboxToBacklogError with a findFirst that has no userId condition.
moveInboxToBacklogError_AnyOwner(user, id) ==
    IF user = NoUser THEN "AuthenticationRequired"
    ELSE IF ~(/\ id \in ItemIds
              /\ items[id].deletedAt = NULL
              /\ items[id].dueDate # NULL) THEN "NotFound"
    ELSE "none"

moveInboxToBacklogError(user, id) ==
    IF user = NoUser THEN "AuthenticationRequired"
    ELSE IF ~(ownedLive(user, id) /\ items[id].dueDate # NULL) THEN "NotFound"
    ELSE "none"

\* moveInboxToBacklog resetting the status as the opposite move does.
moveInboxToBacklog_ResetStatus(user, id) ==
    LET newOrder == nextOrder(backlogIds(user))
        error == moveInboxToBacklogError(user, id)
    IN /\ items' =
            IF error # "none" THEN items
            ELSE [items EXCEPT ![id].dueDate = NULL, ![id].order = newOrder,
                               ![id].status = "TODO"]
       /\ last' = reply("moveInboxToBacklog", id, "none", NULL,
                        found(error = "none", id), error)
       /\ UNCHANGED now

moveInboxToBacklog(user, id) ==
    LET newOrder == nextOrder(backlogIds(user))
        error == moveInboxToBacklogError(user, id)
    IN /\ items' =
            IF error # "none" THEN items
            ELSE [items EXCEPT ![id].dueDate = NULL, ![id].order = newOrder]
       /\ last' = reply("moveInboxToBacklog", id, "none", NULL,
                        found(error = "none", id), error)
       /\ UNCHANGED now

\* deleteInboxItemError with a findFirst that has no deletedAt condition.
deleteInboxItemError_AlsoDeleted(user, id) ==
    IF user = NoUser THEN "AuthenticationRequired"
    ELSE IF ~(id \in ItemIds /\ items[id].userId = user) THEN "NotFound"
    ELSE "none"

deleteInboxItemError(user, id) ==
    IF user = NoUser THEN "AuthenticationRequired"
    ELSE IF ~ownedLive(user, id) THEN "NotFound"
    ELSE "none"

deleteInboxItem(user, id) ==
    LET error == deleteInboxItemError(user, id)
    IN /\ items' =
            IF error # "none" THEN items
            ELSE [items EXCEPT ![id].deletedAt = now]
       /\ last' = reply("deleteInboxItem", id, "none", NULL,
                        found(error = "none", id), error)
       /\ UNCHANGED now

\* ------------------------------------------------ actions/backlog.ts
addBacklogItemError(user, title) ==
    IF user = NoUser THEN "AuthenticationRequired"
    ELSE IF titleInvalid(title) THEN "ValidationError"
    ELSE "none"

addBacklogItem(user, title) ==
    LET newOrder == nextOrder(backlogIds(user))
        error == addBacklogItemError(user, title)
    IN /\ items' =
            IF error # "none" THEN items
            ELSE Append(items,
                    [userId |-> user, title |-> trim(title),
                     dueDate |-> NULL, status |-> "TODO",
                     order |-> newOrder, completedAt |-> NULL,
                     deletedAt |-> NULL])
       /\ last' = reply("addBacklogItem",
                        IF error = "none" THEN Len(items) + 1 ELSE 0,
                        "none", NULL, << >>, error)
       /\ UNCHANGED now

\* updateBacklogItemError with `userId` left out of the findFirst.
updateBacklogItemError_AnyOwner(user, id, updates) ==
    IF user = NoUser THEN "AuthenticationRequired"
    ELSE IF "title" \in updates.keys /\ titleInvalid(updates.title)
         THEN "ValidationError"
    ELSE IF ~(id \in ItemIds /\ items[id].deletedAt = NULL
              /\ items[id].dueDate = NULL) THEN "NotFound"
    ELSE "none"
updateBacklogItemError(user, id, updates) ==
    IF user = NoUser THEN "AuthenticationRequired"
    ELSE IF "title" \in updates.keys /\ titleInvalid(updates.title)
         THEN "ValidationError"
    ELSE IF ~(ownedLive(user, id) /\ items[id].dueDate = NULL) THEN "NotFound"
    ELSE "none"

\* backlogUpdateData writing the status back through the UI value when the
\* patch has none.
backlogUpdateData_StatusRoundTrip(item, updates) ==
    [item EXCEPT
       !.title = IF "title" \in updates.keys THEN trim(updates.title) ELSE @,
       !.status =
           IF "status" \in updates.keys
           THEN mapUIToItemStatus(updates.status)
           ELSE mapUIToItemStatus(mapItemStatusToUI(@)),
       !.order = IF "order" \in updates.keys THEN updates.order ELSE @]
backlogUpdateData(item, updates) ==
    [item EXCEPT
       !.title = IF "title" \in updates.keys THEN trim(updates.title) ELSE @,
       !.status =
           IF "status" \in updates.keys
           THEN mapUIToItemStatus(updates.status) ELSE @,
       !.order = IF "order" \in updates.keys THEN updates.order ELSE @]

updateBacklogItemAs(op, user, id, updates) ==
    LET error == updateBacklogItemError(user, id, updates)
    IN /\ items' =
            IF error # "none" THEN items
            ELSE [items EXCEPT ![id] = backlogUpdateData(@, updates)]
       /\ last' = reply(op, id, requestedStatus(updates), NULL,
                        found(error = "none", id), error)
       /\ UNCHANGED now

updateBacklogItem(user, id, updates) ==
    updateBacklogItemAs("updateBacklogItem", user, id, updates)

\* moveBacklogToInboxError without the `if (!user)` throw.
moveBacklogToInboxError_NoAuth(user, id) ==
    IF ~(ownedLive(user, id) /\ items[id].dueDate = NULL) THEN "NotFound"
    ELSE "none"
moveBacklogToInboxError(user, id) ==
    IF user = NoUser THEN "AuthenticationRequired"
    ELSE IF ~(ownedLive(user, id) /\ items[id].dueDate = NULL) THEN "NotFound"
    ELSE "none"

\* moveBacklogToInboxData without the status and completedAt reset.
moveBacklogToInboxData_NoReset(item, targetDueDate, newOrder) ==
    [item EXCEPT !.dueDate = targetDueDate, !.order = newOrder]

moveBacklogToInboxData(item, targetDueDate, newOrder) ==
    [item EXCEPT !.dueDate = targetDueDate, !.order = newOrder,
                 !.status = "TODO", !.completedAt = NULL]

moveBacklogToInbox(user, id, dueDate) ==
    LET targetDueDate ==
            IF dueDate # NULL THEN startOfDay(dueDate) ELSE startOfDay(now)
        existing == dueOn(user, startOfDay(targetDueDate), endOfDay(targetDueDate))
        newOrder == nextOrder(existing)
        error == moveBacklogToInboxError(user, id)
    IN /\ items' =
            IF error # "none" THEN items
            ELSE [items EXCEPT
                    ![id] = moveBacklogToInboxData(@, targetDueDate, newOrder)]
       /\ last' = reply("moveBacklogToInbox", id, "none", dueDate,
                        found(error = "none", id), error)
       /\ UNCHANGED now

\* ------------------------------------------------------------ client hooks
\* A patch that carries a status only.
statusPatch(status) ==
    [keys |-> {"status"}, title |-> << >>, status |-> status,
     date |-> 0, order |-> 0]

\* useInboxItems.cycleStatus(item): item is a row the Inbox column shows.
inboxCycleStatus(user, date, item) ==
    LET nextStatus == getNextStatus(item.status)
    IN /\ item \in getInboxItems(user, date)
       /\ updateInboxItemAs("useInboxItems.cycleStatus", user, item.id,
                            statusPatch(nextStatus))

\* backlogNextStatus with the modulus one short.
backlogNextStatus_ShortModulus(status) ==
    LET order == <<"not_started", "in_progress", "completed">>
        currentIndex == indexOf(order, status)
    IN order[((currentIndex + 1) % (Len(order) - 1)) + 1]

\* useBacklogItems.cycleStatus(item): its own copy of the status order.
backlogNextStatus(status) ==
    LET order == <<"not_started", "in_progress", "completed">>
        currentIndex == indexOf(order, status)
    IN order[((currentIndex + 1) % Len(order)) + 1]

backlogCycleStatus(user, item) ==
    LET nextStatus == backlogNextStatus(item.status)
    IN /\ item \in getBacklogItems(user)
       /\ updateBacklogItemAs("useBacklogItems.cycleStatus", user, item.id,
                              statusPatch(nextStatus))

\* ------------------------------------------------------------ specification
\* No server action is suspended.
Procs == {"p1", "p2"}
idle == [pc |-> "idle"]
\* No client hook is mounted: requests reach the server actions directly.
unmounted == [mounted |-> {}]
\* The caller and the title argument (a sequence of at most one title).
request(user, title) == [user |-> user, title |-> title]

Init ==
    /\ items = << >>
    /\ now = 0
    /\ last = reply("none", 0, "none", NULL, << >>, "none")
    /\ inflight = [p \in Procs |-> idle]
    /\ call = request(NoUser, << >>)
    /\ assigned = {}
    /\ hook = unmounted

\* The clock advances between requests.
Tick ==
    /\ now' = now + 1
    /\ last' = reply("none", 0, "none", NULL, << >>, "none")
    /\ UNCHANGED <<items, inflight, call, assigned, hook>>

\* The exploration stops at MaxTime and at order values above MaxOrder.
OrdersBounded == \A i \in 1..Len(items') : items'[i].order <= MaxOrder

Next ==
    \/ now < MaxTime /\ Tick
    \/ /\ Len(items) < Cardinality(IdInputs)
       /\ \E u \in Callers, t \in RawTitles, d \in DateInputs : addInboxItem(u, t, d)
       /\ OrdersBounded
       /\ UNCHANGED <<inflight, call, assigned, hook>>
    \/ /\ \E u \in Callers, i \in IdInputs, p \in InboxUpdates : updateInboxItem(u, i, p)
       /\ UNCHANGED <<inflight, call, assigned, hook>>
    \/ /\ \E u \in Callers, i \in IdInputs : moveInboxToBacklog(u, i)
       /\ OrdersBounded
       /\ UNCHANGED <<inflight, call, assigned, hook>>
    \/ /\ \E u \in Callers, i \in IdInputs : deleteInboxItem(u, i)
       /\ UNCHANGED <<inflight, call, assigned, hook>>
    \/ /\ Len(items) < Cardinality(IdInputs)
       /\ \E u \in Callers, t \in RawTitles : addBacklogItem(u, t)
       /\ OrdersBounded
       /\ UNCHANGED <<inflight, call, assigned, hook>>
    \/ /\ \E u \in Callers, i \in IdInputs, p \in BacklogUpdates : updateBacklogItem(u, i, p)
       /\ UNCHANGED <<inflight, call, assigned, hook>>
    \/ /\ \E u \in Callers, i \in IdInputs, d \in DateInputs : moveBacklogToInbox(u, i, d)
       /\ OrdersBounded
       /\ UNCHANGED <<inflight, call, assigned, hook>>
    \/ /\ \E u \in Users, d \in ViewTicks :
             \E it \in getInboxItems(u, d) : inboxCycleStatus(u, d, it)
       /\ UNCHANGED <<inflight, call, assigned, hook>>
    \/ /\ \E u \in Users : \E it \in getBacklogItems(u) : backlogCycleStatus(u, it)
       /\ UNCHANGED <<inflight, call, assigned, hook>>

Spec == Init /\ [][Next]_vars

\* ------------------------------------------------- the table with several rows
\* Two owners, two rows and the requests of one instant: the clock stands
\* still, the day of an Inbox item comes from the dueDate argument.  The
\* first owner creates rows; the second owns the row the table may hold at
\* the start and calls every other action, on its row and on the other's.
StoreUsers == {"u1", "u2"}
StoreCreators == {"u1"}
StoreIds == {1, 2}
StoreTitles == {<<" ">>, <<" ", "a", " ">>}
\* The omitted argument (today) and a time of day on the next day.
StoreDates == {NULL, TicksPerDay + 1}

\* The patches explored: a status, a title, and a title that is empty after
\* trimming together with one more field that is valid.
StoreUpdates(allowed) ==
    {p \in [keys : SUBSET allowed, title : StoreTitles \cup {<< >>},
            status : {"not_started", "completed"}, date : {0, 1},
            order : {0, 1}] :
        /\ \/ p.keys = {"status"}
           \/ p.keys = {"title"}
           \/ /\ Cardinality(p.keys) = 2
              /\ "title" \in p.keys
              /\ titleInvalid(p.title)
        /\ ("title" \in p.keys <=> p.title \in StoreTitles)
        /\ ("status" \in p.keys <=> p.status = "completed")
        /\ ("date" \in p.keys <=> p.date = 1)
        /\ ("order" \in p.keys <=> p.order = 1)}
StoreInboxUpdates == StoreUpdates(PatchKeys)
StoreBacklogUpdates == StoreUpdates({"title", "status", "order"})

\* A row written with the stored status no action of this code writes.
inReviewItem ==
    [userId |-> "u2", title |-> <<"a">>, dueDate |-> 0, status |-> "IN_REVIEW",
     order |-> 0, completedAt |-> NULL, deletedAt |-> NULL]

StoreInit ==
    /\ items \in {<< >>, <<inReviewItem>>}
    /\ now = 0
    /\ last = reply("none", 0, "none", NULL, << >>, "none")
    /\ inflight = [p \in Procs |-> idle]
    /\ call = request(NoUser, << >>)
    /\ assigned = {}
    /\ hook = unmounted

patchTitle(updates) ==
    IF "title" \in updates.keys THEN <<updates.title>> ELSE << >>

StoreNext ==
    \/ /\ Len(items) < Cardinality(StoreIds)
       /\ \E u \in StoreCreators, t \in StoreTitles, d \in StoreDates :
             addInboxItem(u, t, d) /\ call' = request(u, <<t>>)
       /\ OrdersBounded
       /\ UNCHANGED <<inflight, assigned, hook>>
    \/ /\ \E u \in StoreUsers, i \in StoreIds, p \in StoreInboxUpdates :
             updateInboxItem(u, i, p) /\ call' = request(u, patchTitle(p))
       /\ UNCHANGED <<inflight, assigned, hook>>
    \/ /\ \E u \in StoreUsers, i \in StoreIds :
             moveInboxToBacklog(u, i) /\ call' = request(u, << >>)
       /\ OrdersBounded
       /\ UNCHANGED <<inflight, assigned, hook>>
    \/ /\ \E u \in StoreUsers, i \in StoreIds :
             deleteInboxItem(u, i) /\ call' = request(u, << >>)
       /\ UNCHANGED <<inflight, assigned, hook>>
    \/ /\ Len(items) < Cardinality(StoreIds)
       /\ \E u \in StoreCreators, t \in StoreTitles :
             addBacklogItem(u, t) /\ call' = request(u, <<t>>)
       /\ OrdersBounded
       /\ UNCHANGED <<inflight, assigned, hook>>
    \/ /\ \E u \in StoreUsers, i \in StoreIds, p \in StoreBacklogUpdates :
             updateBacklogItem(u, i, p) /\ call' = request(u, patchTitle(p))
       /\ UNCHANGED <<inflight, assigned, hook>>
    \/ /\ \E u \in StoreUsers, i \in StoreIds, d \in StoreDates :
             moveBacklogToInbox(u, i, d) /\ call' = request(u, << >>)
       /\ OrdersBounded
       /\ UNCHANGED <<inflight, assigned, hook>>

StoreSpec == StoreInit /\ [][StoreNext]_vars

\* ------------------------------------------------------ the orders given out
\* One owner creating, moving and deleting rows of an empty table, with the
\* record of every order a create or a move has assigned.
OrderIds == {1, 2}
OrderTitles == {<<"a">>}

\* The list an order belongs to: the Backlog, or the Inbox of one day.
partitionOf(dueDate) == IF dueDate = NULL THEN NULL ELSE formatDate(dueDate)

\* The triple the request in `last` has assigned.
assignedBy(rows, reqst) ==
    <<rows[reqst.id].userId, partitionOf(rows[reqst.id].dueDate),
      rows[reqst.id].order>>

recordOrder ==
    assigned' = IF last'.error = "none"
                THEN assigned \cup {assignedBy(items', last')}
                ELSE assigned

OrderNext ==
    \/ /\ Len(items) < Cardinality(OrderIds)
       /\ \E u \in StoreCreators, t \in OrderTitles, d \in StoreDates :
             addInboxItem(u, t, d)
       /\ OrdersBounded
       /\ recordOrder
       /\ UNCHANGED <<inflight, call, hook>>
    \/ /\ Len(items) < Cardinality(OrderIds)
       /\ \E u \in StoreCreators, t \in OrderTitles : addBacklogItem(u, t)
       /\ OrdersBounded
       /\ recordOrder
       /\ UNCHANGED <<inflight, call, hook>>
    \/ /\ \E u \in StoreCreators, i \in OrderIds : moveInboxToBacklog(u, i)
       /\ OrdersBounded
       /\ recordOrder
       /\ UNCHANGED <<inflight, call, hook>>
    \/ /\ \E u \in StoreCreators, i \in OrderIds, d \in StoreDates :
             moveBacklogToInbox(u, i, d)
       /\ OrdersBounded
       /\ recordOrder
       /\ UNCHANGED <<inflight, call, hook>>
    \/ /\ \E u \in StoreCreators, i \in OrderIds : deleteInboxItem(u, i)
       /\ UNCHANGED <<inflight, call, assigned, hook>>

OrderSpec == Init /\ [][OrderNext]_vars

\* ------------------------------------------------ two calls of an add action
\* Each process calls addInboxItem or addBacklogItem once.  The call runs up
\* to the `await` of prisma.item.create, where the other process can run,
\* and then creates its row.
suspended(op, user, title, dueDate, newOrder) ==
    [pc |-> "create", op |-> op, userId |-> user, title |-> title,
     dueDate |-> dueDate, newOrder |-> newOrder, seen |-> Len(items),
     id |-> 0, error |-> "none"]

\* A call that threw before it read the table.
thrown(op, user, title, error) ==
    [pc |-> "done", op |-> op, userId |-> user, title |-> title,
     dueDate |-> NULL, newOrder |-> 0, seen |-> NULL, id |-> 0,
     error |-> error]

\* The table has no uniqueness rule over order: a create is never refused
\* for the order it carries.
createConflict(row) == FALSE

\* createdOrder computing the maximum again when the row is written.
createdOrder_Recomputed(c) ==
    IF c.dueDate = NULL THEN nextOrder(backlogIds(c.userId))
    ELSE nextOrder(dueOn(c.userId, startOfDay(c.dueDate), endOfDay(c.dueDate)))

\* `order: newOrder`: the value computed before the await.
createdOrder(c) == c.newOrder

addInboxItemRead(p, user, title, dueDate) ==
    LET targetDueDate ==
            IF dueDate # NULL THEN startOfDay(dueDate) ELSE startOfDay(now)
        existing == dueOn(user, startOfDay(targetDueDate), endOfDay(targetDueDate))
        newOrder == nextOrder(existing)
        error == addInboxItemError(user, title)
    IN /\ inflight[p].pc = "idle"
       /\ inflight' = [inflight EXCEPT ![p] =
              IF error # "none" THEN thrown("addInboxItem", user, title, error)
              ELSE suspended("addInboxItem", user, title, targetDueDate, newOrder)]
       /\ UNCHANGED <<items, now, last, call, assigned, hook>>

addBacklogItemRead(p, user, title) ==
    LET newOrder == nextOrder(backlogIds(user))
        error == addBacklogItemError(user, title)
    IN /\ inflight[p].pc = "idle"
       /\ inflight' = [inflight EXCEPT ![p] =
              IF error # "none" THEN thrown("addBacklogItem", user, title, error)
              ELSE suspended("addBacklogItem", user, title, NULL, newOrder)]
       /\ UNCHANGED <<items, now, last, call, assigned, hook>>

\* prisma.item.create of either add action, and its return.
addItemCreate(p, op) ==
    LET c == inflight[p]
        row == [userId |-> c.userId, title |-> trim(c.title),
                dueDate |-> c.dueDate, status |-> "TODO",
                order |-> createdOrder(c), completedAt |-> NULL,
                deletedAt |-> NULL]
    IN /\ c.pc = "create"
       /\ c.op = op
       /\ items' = IF createConflict(row) THEN items ELSE Append(items, row)
       /\ inflight' = [inflight EXCEPT ![p] =
              IF createConflict(row)
              THEN [c EXCEPT !.pc = "done", !.error = "ConstraintError"]
              ELSE [c EXCEPT !.pc = "done", !.id = Len(items) + 1]]
       /\ UNCHANGED <<now, last, call, assigned, hook>>

addInboxItemCreate(p) == addItemCreate(p, "addInboxItem")
addBacklogItemCreate(p) == addItemCreate(p, "addBacklogItem")

RaceNext ==
    \/ \E p \in Procs, u \in StoreUsers, t \in StoreTitles, d \in StoreDates :
          addInboxItemRead(p, u, t, d)
    \/ \E p \in Procs : addInboxItemCreate(p)
    \/ \E p \in Procs, u \in StoreUsers, t \in StoreTitles :
          addBacklogItemRead(p, u, t)
    \/ \E p \in Procs : addBacklogItemCreate(p)

RaceSpec == Init /\ [][RaceNext]_vars

\* ------------------------------------------------------ every caller
\* The nine server actions, each called by a signed-in user or without a
\* session; `call` keeps who called.
getInboxItemsError(user) ==
    IF user = NoUser THEN "AuthenticationRequired" ELSE "none"

getBacklogItemsError(user) ==
    IF user = NoUser THEN "AuthenticationRequired" ELSE "none"

\* The rows of one findMany result.
rowsOf(s) == [k \in 1..Len(s) |-> items[s[k]]]

getInboxItemsCall(user, date) ==
    LET error == getInboxItemsError(user)
    IN /\ \E s \in inboxResults(user, date) :
             last' = reply("getInboxItems", 0, "none", date,
                           IF error = "none" THEN rowsOf(s) ELSE << >>, error)
       /\ UNCHANGED <<items, now>>

getBacklogItemsCall(user) ==
    LET error == getBacklogItemsError(user)
    IN /\ \E s \in backlogResults(user) :
             last' = reply("getBacklogItems", 0, "none", NULL,
                           IF error = "none" THEN rowsOf(s) ELSE << >>, error)
       /\ UNCHANGED <<items, now>>

\* Any of the nine actions, called by one of `callers`.
ServerNext(callers) ==
    \/ /\ \E u \in callers, d \in Ticks :
             getInboxItemsCall(u, d) /\ call' = request(u, << >>)
       /\ UNCHANGED <<inflight, assigned, hook>>
    \/ /\ \E u \in callers :
             getBacklogItemsCall(u) /\ call' = request(u, << >>)
       /\ UNCHANGED <<inflight, assigned, hook>>
    \/ /\ Len(items) < Cardinality(IdInputs)
       /\ \E u \in callers, t \in RawTitles, d \in DateInputs :
             addInboxItem(u, t, d) /\ call' = request(u, <<t>>)
       /\ OrdersBounded
       /\ UNCHANGED <<inflight, assigned, hook>>
    \/ /\ \E u \in callers, i \in IdInputs, p \in InboxUpdates :
             updateInboxItem(u, i, p) /\ call' = request(u, patchTitle(p))
       /\ UNCHANGED <<inflight, assigned, hook>>
    \/ /\ \E u \in callers, i \in IdInputs :
             moveInboxToBacklog(u, i) /\ call' = request(u, << >>)
       /\ OrdersBounded
       /\ UNCHANGED <<inflight, assigned, hook>>
    \/ /\ \E u \in callers, i \in IdInputs :
             deleteInboxItem(u, i) /\ call' = request(u, << >>)
       /\ UNCHANGED <<inflight, assigned, hook>>
    \/ /\ Len(items) < Cardinality(IdInputs)
       /\ \E u \in callers, t \in RawTitles :
             addBacklogItem(u, t) /\ call' = request(u, <<t>>)
       /\ OrdersBounded
       /\ UNCHANGED <<inflight, assigned, hook>>
    \/ /\ \E u \in callers, i \in IdInputs, p \in BacklogUpdates :
             updateBacklogItem(u, i, p) /\ call' = request(u, patchTitle(p))
       /\ UNCHANGED <<inflight, assigned, hook>>
    \/ /\ \E u \in callers, i \in IdInputs, d \in DateInputs :
             moveBacklogToInbox(u, i, d) /\ call' = request(u, << >>)
       /\ OrdersBounded
       /\ UNCHANGED <<inflight, assigned, hook>>

AuthNext == ServerNext(Callers)

AuthSpec == Init /\ [][AuthNext]_vars

\* ------------------------------------------------- the stored statuses
\* The nine actions with every status a patch can carry, on one row that is
\* created by its owner or is there from the start, stored as IN_REVIEW.
StatusNext == ServerNext(StoreUsers)

StatusSpec == StoreInit /\ [][StatusNext]_vars

\* ------------------------------------------- orders within one list
\* The patches that carry no order: a title, a status or a date.
PartitionInboxUpdates ==
    {p \in InboxUpdates :
        /\ "order" \notin p.keys
        /\ "title" \in p.keys => ~titleInvalid(p.title)
        /\ p.status # "in_progress"}
PartitionBacklogUpdates ==
    {p \in BacklogUpdates :
        /\ "order" \notin p.keys
        /\ "title" \in p.keys => ~titleInvalid(p.title)
        /\ p.status # "in_progress"}

\* Creations, moves, deletions and updates without order, one request after
\* the other.
PartitionNext ==
    \/ /\ Len(items) < Cardinality(OrderIds)
       /\ \E u \in StoreCreators, t \in OrderTitles, d \in StoreDates :
             addInboxItem(u, t, d)
       /\ OrdersBounded
       /\ UNCHANGED <<inflight, call, assigned, hook>>
    \/ /\ Len(items) < Cardinality(OrderIds)
       /\ \E u \in StoreCreators, t \in OrderTitles : addBacklogItem(u, t)
       /\ OrdersBounded
       /\ UNCHANGED <<inflight, call, assigned, hook>>
    \/ /\ \E u \in StoreCreators, i \in OrderIds : moveInboxToBacklog(u, i)
       /\ OrdersBounded
       /\ UNCHANGED <<inflight, call, assigned, hook>>
    \/ /\ \E u \in StoreCreators, i \in OrderIds, d \in StoreDates :
             moveBacklogToInbox(u, i, d)
       /\ OrdersBounded
       /\ UNCHANGED <<inflight, call, assigned, hook>>
    \/ /\ \E u \in StoreCreators, i \in OrderIds : deleteInboxItem(u, i)
       /\ UNCHANGED <<inflight, call, assigned, hook>>
    \/ /\ \E u \in StoreCreators, i \in OrderIds, p \in PartitionInboxUpdates :
             updateInboxItem(u, i, p)
       /\ UNCHANGED <<inflight, call, assigned, hook>>
    \/ /\ \E u \in StoreCreators, i \in OrderIds, p \in PartitionBacklogUpdates :
             updateBacklogItem(u, i, p)
       /\ UNCHANGED <<inflight, call, assigned, hook>>

PartitionSpec == Init /\ [][PartitionNext]_vars

\* ------------------------------------------- requests that overlap a delete
\* An update, a move or a delete between two of its awaits: what the call
\* holds in its locals.  `updates` is the patch of an update (empty keys
\* otherwise), `dueDate` the target day of a move to the Inbox.
noPatch ==
    [keys |-> {}, title |-> << >>, status |-> "not_started", date |-> 0,
     order |-> 0]
awaiting(pc, op, user, id, updates, dueDate, newOrder, error) ==
    [pc |-> pc, op |-> op, userId |-> user, id |-> id, updates |-> updates,
     dueDate |-> dueDate, newOrder |-> newOrder, error |-> error]

\* The first await of a call: its findFirst, after which it throws or goes on
\* to `pc`.
findFirstStep(p, pc, op, user, id, updates, dueDate, error) ==
    /\ inflight[p].pc = "idle"
    /\ inflight' = [inflight EXCEPT ![p] =
           awaiting(IF error # "none" THEN "done" ELSE pc, op, user, id,
                    updates, dueDate, 0, error)]
    /\ UNCHANGED <<items, now, last, call, assigned, hook>>

\* The last await of a call: prisma.item.update({ where: { id }, data }).
updateStep(p, op, row) ==
    /\ inflight[p].pc = "update"
    /\ inflight[p].op = op
    /\ items' = [items EXCEPT ![inflight[p].id] = row]
    /\ inflight' = [inflight EXCEPT ![p].pc = "done"]
    /\ UNCHANGED <<now, last, call, assigned, hook>>

updateInboxItemFindFirst(p, user, id, updates) ==
    findFirstStep(p, "update", "updateInboxItem", user, id, updates, NULL,
                  updateInboxItemError(user, id, updates))

updateInboxItemUpdate(p) ==
    updateStep(p, "updateInboxItem",
               inboxUpdateData(items[inflight[p].id], inflight[p].updates))

moveInboxToBacklogFindFirst(p, user, id) ==
    findFirstStep(p, "findMany", "moveInboxToBacklog", user, id, noPatch, NULL,
                  moveInboxToBacklogError(user, id))

moveInboxToBacklogFindMany(p) ==
    /\ inflight[p].pc = "findMany"
    /\ inflight[p].op = "moveInboxToBacklog"
    /\ inflight' = [inflight EXCEPT
           ![p].pc = "update",
           ![p].newOrder = nextOrder(backlogIds(inflight[p].userId))]
    /\ UNCHANGED <<items, now, last, call, assigned, hook>>

moveInboxToBacklogUpdate(p) ==
    updateStep(p, "moveInboxToBacklog",
               [items[inflight[p].id] EXCEPT
                   !.dueDate = NULL, !.order = inflight[p].newOrder])

moveBacklogToInboxFindFirst(p, user, id, dueDate) ==
    findFirstStep(p, "findMany", "moveBacklogToInbox", user, id, noPatch,
                  IF dueDate # NULL THEN startOfDay(dueDate) ELSE startOfDay(now),
                  moveBacklogToInboxError(user, id))

moveBacklogToInboxFindMany(p) ==
    LET c == inflight[p]
    IN /\ c.pc = "findMany"
       /\ c.op = "moveBacklogToInbox"
       /\ inflight' = [inflight EXCEPT
              ![p].pc = "update",
              ![p].newOrder =
                  nextOrder(dueOn(c.userId, startOfDay(c.dueDate),
                                  endOfDay(c.dueDate)))]
       /\ UNCHANGED <<items, now, last, call, assigned, hook>>

moveBacklogToInboxUpdate(p) ==
    updateStep(p, "moveBacklogToInbox",
               moveBacklogToInboxData(items[inflight[p].id],
                                      inflight[p].dueDate, inflight[p].newOrder))

deleteInboxItemFindFirst(p, user, id) ==
    findFirstStep(p, "update", "deleteInboxItem", user, id, noPatch, NULL,
                  deleteInboxItemError(user, id))

deleteInboxItemUpdate(p) ==
    updateStep(p, "deleteInboxItem",
               [items[inflight[p].id] EXCEPT !.deletedAt = now])

\* A call has returned or thrown; the process takes its next request.
returned(p) ==
    /\ inflight[p].pc = "done"
    /\ inflight' = [inflight EXCEPT ![p] = idle]
    /\ UNCHANGED <<items, now, last, call, assigned, hook>>

\* The patches of the overlapping updates: a title or a status.
OverlapUpdates ==
    {u \in PartitionInboxUpdates :
        u.keys \in {{"title"}, {"status"}}}

\* One row is created; two requests of its owner then run await by await.
OverlapNext ==
    \/ /\ Len(items) < Cardinality(IdInputs)
       /\ \E t \in OrderTitles, d \in StoreDates : addInboxItem("u1", t, d)
       /\ UNCHANGED <<inflight, call, assigned, hook>>
    \/ /\ Len(items) < Cardinality(IdInputs)
       /\ \E t \in OrderTitles : addBacklogItem("u1", t)
       /\ UNCHANGED <<inflight, call, assigned, hook>>
    \/ \E p \in Procs, i \in IdInputs, u \in OverlapUpdates :
          updateInboxItemFindFirst(p, "u1", i, u)
    \/ \E p \in Procs : updateInboxItemUpdate(p)
    \/ \E p \in Procs, i \in IdInputs : moveInboxToBacklogFindFirst(p, "u1", i)
    \/ \E p \in Procs : moveInboxToBacklogFindMany(p)
    \/ (\E p \in Procs : moveInboxToBacklogUpdate(p)) /\ OrdersBounded
    \/ \E p \in Procs, i \in IdInputs, d \in StoreDates :
          moveBacklogToInboxFindFirst(p, "u1", i, d)
    \/ \E p \in Procs : moveBacklogToInboxFindMany(p)
    \/ (\E p \in Procs : moveBacklogToInboxUpdate(p)) /\ OrdersBounded
    \/ \E p \in Procs, i \in IdInputs : deleteInboxItemFindFirst(p, "u1", i)
    \/ \E p \in Procs : deleteInboxItemUpdate(p)
    \/ \E p \in Procs : returned(p)

OverlapSpec == Init /\ [][OverlapNext]_vars

\* ------------------------------------------------ hooks/useItemCreation
\* hook.title and hook.isCreating are the two useState values; the pending
\* onCreateItem(title.trim()) call of a handleSubmit is in `inflight`.  A
\* handler reads the state of the render it was created in, and React
\* renders between two events, so each event reads the current `hook`.
CreationTitles == RawTitles \cup {<<"b">>}

creating(title) == [pc |-> "onCreateItem", title |-> title]

CreationInit ==
    /\ items = << >>
    /\ now = 0
    /\ last = reply("none", 0, "none", NULL, << >>, "none")
    /\ inflight = [p \in Procs |-> idle]
    /\ call = request(NoUser, << >>)
    /\ assigned = {}
    /\ hook = [title |-> << >>, isCreating |-> FALSE]

\* onChange of the input: setTitle(e.target.value).
setTitle(title) ==
    /\ hook' = [hook EXCEPT !.title = title]
    /\ last' = reply("setTitle", 0, "none", NULL, << >>, "none")
    /\ UNCHANGED <<items, now, inflight, call, assigned>>

\* handleSubmit with the guard `title.trim()` alone.
handleSubmitGuard_TitleOnly == trim(hook.title) # << >>

\* `if (title.trim() && !isCreating)`
handleSubmitGuard == trim(hook.title) # << >> /\ ~hook.isCreating

\* handleSubmit up to its await: `call` is the onCreateItem call it made, with
\* no title when it made none.
handleSubmit(p) ==
    /\ inflight[p].pc = "idle"
    /\ last' = reply("handleSubmit", 0, "none", NULL, << >>, "none")
    /\ IF handleSubmitGuard
       THEN /\ hook' = [hook EXCEPT !.isCreating = TRUE]
            /\ inflight' = [inflight EXCEPT ![p] = creating(trim(hook.title))]
            /\ call' = request("u1", <<trim(hook.title)>>)
       ELSE /\ call' = request("u1", << >>)
            /\ UNCHANGED <<hook, inflight>>
    /\ UNCHANGED <<items, now, assigned>>

\* onCreateItem resolves: setTitle(''), then the finally block.  The call is
\* useBacklogItems.addBacklogItem, which runs the server action (as the
\* signed-in user, or after the session has ended) and catches its error.
onCreateItemResolve(p) ==
    /\ inflight[p].pc = "onCreateItem"
    /\ \E u \in Callers :
          /\ u # NoUser => Len(items) < Cardinality(OrderIds)
          /\ addBacklogItem(u, inflight[p].title)
    /\ OrdersBounded
    /\ hook' = [title |-> << >>, isCreating |-> FALSE]
    /\ inflight' = [inflight EXCEPT ![p] = idle]
    /\ UNCHANGED <<call, assigned>>

\* An onCreateItem that rejects: the finally block alone, and handleSubmit
\* rejects.
onCreateItemReject(p) ==
    /\ inflight[p].pc = "onCreateItem"
    /\ hook' = [hook EXCEPT !.isCreating = FALSE]
    /\ inflight' = [inflight EXCEPT ![p] = idle]
    /\ last' = reply("onCreateItem", 0, "none", NULL, << >>, "rejected")
    /\ UNCHANGED <<items, now, call, assigned>>

CreationNext ==
    \/ \E t \in CreationTitles : setTitle(t)
    \/ \E p \in Procs : handleSubmit(p)
    \/ \E p \in Procs : onCreateItemResolve(p)
    \/ \E p \in Procs : onCreateItemReject(p)

CreationSpec == CreationInit /\ [][CreationNext]_vars

\* -------------------------------- hooks/useInboxItems, useBacklogItems
\* hook.currentDate, hook.inboxItems and hook.loadingItemIds are the useState
\* values of useInboxItems; hook.backlogItems and hook.backlogLoadingItemIds
\* those of useBacklogItems.  An async function of a hook that waits for a
\* server action is in `inflight`, with the values its closure holds: the
\* currentDate of the render it was called in (date), the clicked item (item)
\* and its next status, and the id whose loading flag the function clears
\* when it ends (cycled, 0 for none).  A server action runs as the signed-in
\* user, or throws because the session has ended.
HookIds == {1, 2}
noItem == [id |-> 0]

waiting(pc, date, item, nextStatus, cycled) ==
    [pc |-> pc, date |-> date, item |-> item, nextStatus |-> nextStatus,
     cycled |-> cycled]

\* The InboxItem that updateInboxItem returns for the row it has written.
updatedInboxItem(id, row) ==
    [id |-> id,
     title |-> row.title,
     status |-> mapItemStatusToUI(row.status),
     date |-> IF row.dueDate # NULL THEN formatDate(row.dueDate)
              ELSE formatDate(now),
     order |-> row.order]

\* The BacklogItem that updateBacklogItem returns.
updatedBacklogItem(id, row) ==
    [id |-> id,
     title |-> row.title,
     status |-> mapItemStatusToUI(row.status),
     order |-> row.order]

\* The array a findMany result `s` is mapped to.
inboxItemsOf(user, date, s) ==
    [k \in 1..Len(s) |->
        CHOOSE r \in getInboxItems(user, date) : r.id = s[k]]
backlogItemsOf(user, s) ==
    [k \in 1..Len(s) |-> CHOOSE r \in getBacklogItems(user) : r.id = s[k]]

\* prevItems.map((i) => (i.id === id ? item : i))
replaceItem(prevItems, id, item) ==
    [k \in 1..Len(prevItems) |->
        IF prevItems[k].id = id THEN item ELSE prevItems[k]]

\* prevItems.map((i) => (i.id === id ? { ...i, status } : i))
withStatus(prevItems, id, status) ==
    [k \in 1..Len(prevItems) |->
        IF prevItems[k].id = id
        THEN [prevItems[k] EXCEPT !.status = status] ELSE prevItems[k]]

\* [...inboxItems].sort((a, b) => a.order - b.order): a stable sort.
RECURSIVE insertByOrder(_, _)
insertByOrder(sorted, item) ==
    IF sorted = << >> THEN <<item>>
    ELSE IF sorted[Len(sorted)].order <= item.order THEN Append(sorted, item)
    ELSE Append(insertByOrder(SubSeq(sorted, 1, Len(sorted) - 1), item),
                sorted[Len(sorted)])

RECURSIVE sortByOrder(_)
sortByOrder(arr) ==
    IF arr = << >> THEN << >>
    ELSE insertByOrder(sortByOrder(SubSeq(arr, 1, Len(arr) - 1)), arr[Len(arr)])

currentItems == sortByOrder(hook.inboxItems)

\* The page as the server component has rendered it for an empty table.
HookInit ==
    /\ items = << >>
    /\ now = 0
    /\ last = reply("none", 0, "none", NULL, << >>, "none")
    /\ inflight = [p \in Procs |-> idle]
    /\ call = request(NoUser, << >>)
    /\ assigned = {}
    /\ hook = [currentDate |-> formatDate(now), inboxItems |-> << >>,
               loadingItemIds |-> {}, backlogItems |-> << >>,
               backlogLoadingItemIds |-> {}]

\* changeDateAndFetch(date), entered from inside a hook function: the
\* setCurrentDate and the call of getInboxItems.
changeDateAndFetchFrom(p, date, cycled) ==
    /\ hook' = [hook EXCEPT !.currentDate = date]
    /\ inflight' = [inflight EXCEPT ![p] =
           waiting("getInboxItems", date, noItem, "none", cycled)]

\* The user picks a date: changeDateAndFetch(date) up to its await.
changeDateAndFetch(p, date) ==
    /\ inflight[p].pc = "idle"
    /\ changeDateAndFetchFrom(p, date, 0)
    /\ last' = reply("changeDateAndFetch", 0, "none", date, << >>, "none")
    /\ UNCHANGED <<items, now, call, assigned>>

\* getInboxItems(date) returns or throws: the rest of changeDateAndFetch, and
\* the finally block of a cycleStatus that was waiting for it.
getInboxItemsSettled(p) ==
    LET c == inflight[p]
    IN /\ c.pc = "getInboxItems"
       /\ \E u \in Callers :
             /\ getInboxItemsCall(u, parseDate(c.date))
             /\ \E s \in inboxResults(u, parseDate(c.date)) :
                   hook' = [hook EXCEPT
                      !.inboxItems =
                          IF getInboxItemsError(u) = "none"
                          THEN inboxItemsOf(u, parseDate(c.date), s) ELSE @,
                      !.loadingItemIds = @ \ {c.cycled}]
       /\ inflight' = [inflight EXCEPT ![p] = idle]
       /\ UNCHANGED <<call, assigned>>

\* useInboxItems.addInboxItem(title) up to its await.
hookAddInboxItem(p) ==
    /\ inflight[p].pc = "idle"
    /\ inflight' = [inflight EXCEPT ![p] =
           waiting("addInboxItem", hook.currentDate, noItem, "none", 0)]
    /\ last' = reply("useInboxItems.addInboxItem", 0, "none", NULL, << >>, "none")
    /\ UNCHANGED <<items, now, call, assigned, hook>>

\* The server action returns (then changeDateAndFetch(currentDate) with the
\* currentDate of the closure) or throws (then the catch).
hookAddInboxItemSettled(p) ==
    LET c == inflight[p]
    IN /\ c.pc = "addInboxItem"
       /\ \E u \in Callers, t \in OrderTitles :
             addInboxItem(u, t, parseDate(c.date))
       /\ IF last'.error = "none"
          THEN changeDateAndFetchFrom(p, c.date, 0)
          ELSE inflight' = [inflight EXCEPT ![p] = idle] /\ UNCHANGED hook
       /\ UNCHANGED <<call, assigned>>

\* useInboxItems.cycleStatus(item) up to its await; item is one of the
\* rendered currentItems.
cycleStatus(p, item) ==
    LET nextStatus == getNextStatus(item.status)
    IN /\ inflight[p].pc = "idle"
       /\ hook' = [hook EXCEPT
              !.loadingItemIds = @ \cup {item.id},
              !.inboxItems = withStatus(@, item.id, nextStatus)]
       /\ inflight' = [inflight EXCEPT ![p] =
              waiting("updateInboxItem", hook.currentDate, item, nextStatus,
                      item.id)]
       /\ last' = reply("useInboxItems.cycleStatus", item.id, nextStatus, NULL,
                        << >>, "none")
       /\ UNCHANGED <<items, now, call, assigned>>

\* cycleStatusSettled taking the returned item into the list whatever its date.
cycleStatusRefetches_Never(item, updatedItem) == FALSE

\* `currentItem && updatedItem.date === currentItem.date` fails: currentItem
\* is the clicked item, found in the inboxItems of the same render.
cycleStatusRefetches(item, updatedItem) == updatedItem.date # item.date

\* updateInboxItem returns or throws: the rest of cycleStatus.
cycleStatusSettled(p) ==
    LET c == inflight[p]
        updatedItem == updatedInboxItem(c.item.id, items'[c.item.id])
    IN /\ c.pc = "updateInboxItem"
       /\ \E u \in Callers :
             updateInboxItemAs("updateInboxItem", u, c.item.id,
                               statusPatch(c.nextStatus))
       /\ IF last'.error # "none"
          THEN /\ hook' = [hook EXCEPT
                      !.inboxItems = replaceItem(@, c.item.id, c.item),
                      !.loadingItemIds = @ \ {c.item.id}]
               /\ inflight' = [inflight EXCEPT ![p] = idle]
          ELSE IF cycleStatusRefetches(c.item, updatedItem)
          THEN changeDateAndFetchFrom(p, c.date, c.item.id)
          ELSE /\ hook' = [hook EXCEPT
                      !.inboxItems = replaceItem(@, c.item.id, updatedItem),
                      !.loadingItemIds = @ \ {c.item.id}]
               /\ inflight' = [inflight EXCEPT ![p] = idle]
       /\ UNCHANGED <<call, assigned>>

\* useBacklogItems.addBacklogItem(title) up to its first await.
hookAddBacklogItem(p) ==
    /\ inflight[p].pc = "idle"
    /\ inflight' = [inflight EXCEPT ![p] =
           waiting("addBacklogItem", NULL, noItem, "none", 0)]
    /\ last' = reply("useBacklogItems.addBacklogItem", 0, "none", NULL, << >>,
                     "none")
    /\ UNCHANGED <<items, now, call, assigned, hook>>

\* The server action returns (then getBacklogItems is called) or throws.
hookAddBacklogItemSettled(p) ==
    /\ inflight[p].pc = "addBacklogItem"
    /\ \E u \in Callers, t \in OrderTitles : addBacklogItem(u, t)
    /\ inflight' = [inflight EXCEPT ![p] =
           IF last'.error = "none"
           THEN waiting("getBacklogItems", NULL, noItem, "none", 0) ELSE idle]
    /\ UNCHANGED <<call, assigned, hook>>

\* getBacklogItems() returns (setBacklogItems) or throws (the catch).
getBacklogItemsSettled(p) ==
    /\ inflight[p].pc = "getBacklogItems"
    /\ \E u \in Callers :
          /\ getBacklogItemsCall(u)
          /\ \E s \in backlogResults(u) :
                hook' = [hook EXCEPT
                   !.backlogItems =
                       IF getBacklogItemsError(u) = "none"
                       THEN backlogItemsOf(u, s) ELSE @]
    /\ inflight' = [inflight EXCEPT ![p] = idle]
    /\ UNCHANGED <<call, assigned>>

\* useBacklogItems.cycleStatus(item) up to its await.
backlogCycle(p, item) ==
    LET nextStatus == backlogNextStatus(item.status)
    IN /\ inflight[p].pc = "idle"
       /\ hook' = [hook EXCEPT
              !.backlogLoadingItemIds = @ \cup {item.id},
              !.backlogItems = withStatus(@, item.id, nextStatus)]
       /\ inflight' = [inflight EXCEPT ![p] =
              waiting("updateBacklogItem", NULL, item, nextStatus, item.id)]
       /\ last' = reply("useBacklogItems.cycleStatus", item.id, nextStatus, NULL,
                        << >>, "none")
       /\ UNCHANGED <<items, now, call, assigned>>

\* updateBacklogItem returns or throws: the rest of the Backlog cycleStatus.
backlogCycleSettled(p) ==
    LET c == inflight[p]
        updatedItem == updatedBacklogItem(c.item.id, items'[c.item.id])
    IN /\ c.pc = "updateBacklogItem"
       /\ \E u \in Callers :
             updateBacklogItemAs("updateBacklogItem", u, c.item.id,
                                 statusPatch(c.nextStatus))
       /\ hook' = [hook EXCEPT
              !.backlogItems =
                  replaceItem(@, c.item.id,
                              IF last'.error # "none" THEN c.item
                              ELSE updatedItem),
              !.backlogLoadingItemIds = @ \ {c.item.id}]
       /\ inflight' = [inflight EXCEPT ![p] = idle]
       /\ UNCHANGED <<call, assigned>>

\* The slot a new call takes: the first one that is free.
firstIdle(p) ==
    /\ inflight[p].pc = "idle"
    /\ \A q \in Procs : inflight[q].pc = "idle" => p = "p1" \/ q # "p1"

\* One function of the two hooks is in progress at a time (p1); the user can
\* pick a date while it is (p2).
HookNext ==
    \/ \E p \in Procs, d \in Days : firstIdle(p) /\ changeDateAndFetch(p, d)
    \/ \E p \in Procs : getInboxItemsSettled(p)
    \/ Len(items) < Cardinality(HookIds) /\ hookAddInboxItem("p1")
    \/ hookAddInboxItemSettled("p1") /\ OrdersBounded
    \/ \E k \in 1..Len(hook.inboxItems) : cycleStatus("p1", currentItems[k])
    \/ cycleStatusSettled("p1")
    \/ Len(items) < Cardinality(HookIds) /\ hookAddBacklogItem("p1")
    \/ hookAddBacklogItemSettled("p1") /\ OrdersBounded
    \/ getBacklogItemsSettled("p1")
    \/ \E k \in 1..Len(hook.backlogItems) :
          backlogCycle("p1", hook.backlogItems[k])
    \/ backlogCycleSettled("p1")

HookSpec == HookInit /\ [][HookNext]_vars

\* ================================================================== claims
sameDay(a, b) == a \div TicksPerDay = b \div TicksPerDay
dayOf(t) == t \div TicksPerDay
inboxIds(u, d) == {r.id : r \in getInboxItems(u, d)}
backlogRowIds(u) == {r.id : r \in getBacklogItems(u)}
isInboxUpdate == last.op \in {"updateInboxItem", "useInboxItems.cycleStatus"}
served == last.error = "none" /\ last.existingItem # << >>

\* C1: in every reachable store state each item has completedAt non-null
\* exactly when its status is completed (DONE).
C1_CompletedAtIffDone ==
    \A i \in ItemIds :
        (items[i].completedAt # NULL) <=> (items[i].status = "DONE")

\* C2: no item is returned both by getInboxItems(D) and by getBacklogItems(),
\* and after a successful moveInboxToBacklog the moved item is returned by
\* getInboxItems for no date.
C2_NeverInBothLists ==
    /\ \A u \in Users, d \in ViewTicks : inboxIds(u, d) \cap backlogRowIds(u) = {}
    /\ (last.op = "moveInboxToBacklog" /\ served) =>
          \A u \in Users, d \in ViewTicks : last.id \notin inboxIds(u, d)

\* C3: getInboxItems(D) returns exactly the owner's non-deleted items that
\* are due on day D, or due before D and not completed, or completed on D.
C3_DueOnDay(i, d) ==
    items[i].dueDate # NULL /\ sameDay(items[i].dueDate, d)
C3_Overdue(i, d) ==
    /\ items[i].dueDate # NULL
    /\ dayOf(items[i].dueDate) < dayOf(d)
    /\ mapItemStatusToUI(items[i].status) # "completed"
C3_CompletedOnDay(i, d) ==
    items[i].completedAt # NULL /\ sameDay(items[i].completedAt, d)
C4_NoFutureDueDate ==
    \A u \in Users, d \in ViewTicks :
        \A i \in inboxIds(u, d) :
            items[i].dueDate = NULL \/ dayOf(items[i].dueDate) <= dayOf(d)

\* C5: the date of a row returned by getInboxItems(D) is D when the item's
\* completedAt falls on day D and the item's own dueDate in every other case.
C5_DisplayedDate ==
    \A u \in Users, d \in ViewTicks :
        \A r \in getInboxItems(u, d) :
            IF items[r.id].completedAt # NULL /\ sameDay(items[r.id].completedAt, d)
            THEN r.date = dayOf(d)
            ELSE items[r.id].dueDate # NULL /\ r.date = dayOf(items[r.id].dueDate)

\* C6: a not_started Inbox item due on D0 is listed on every later day D
\* with displayed date D0; once it is completed on a day X >= D0 it is listed
\* on X with displayed date X and on no day after X.
C6_OverdueThenCompleted ==
    /\ \A i \in ItemIds :
          (/\ items[i].deletedAt = NULL
           /\ items[i].dueDate # NULL
           /\ items[i].status = "TODO") =>
              \A d \in ViewTicks :
                  dayOf(d) > dayOf(items[i].dueDate) =>
                      \E r \in getInboxItems(items[i].userId, d) :
                          r.id = i /\ r.date = dayOf(items[i].dueDate)
    /\ (/\ isInboxUpdate
        /\ served
        /\ last.status = "completed"
        /\ last.existingItem[1].dueDate # NULL
        /\ last.existingItem[1].status # "DONE"
        /\ dayOf(now) >= dayOf(items[last.id].dueDate)) =>
           /\ \E r \in getInboxItems(items[last.id].userId, now) :
                 r.id = last.id /\ r.date = dayOf(now)
           /\ \A d \in ViewTicks :
                 dayOf(d) > dayOf(now) =>
                     last.id \notin inboxIds(items[last.id].userId, d)

\* C7: when updateInboxItem changes a completed Inbox item back to a status
\* that is not completed, completedAt is null, and an Inbox item that is not
\* completed is listed on every day on or after its dueDate.
C7_RevertedIsCarriedForward ==
    /\ (/\ isInboxUpdate
        /\ served
        /\ last.status \in {"not_started", "in_progress"}
        /\ last.existingItem[1].status = "DONE"
        /\ last.existingItem[1].dueDate # NULL) =>
           /\ items[last.id].completedAt = NULL
           /\ \A d \in ViewTicks :
                 dayOf(d) >= dayOf(items[last.id].dueDate) =>
                     last.id \in inboxIds(items[last.id].userId, d)
    /\ \A i \in ItemIds :
          (/\ items[i].deletedAt = NULL
           /\ items[i].dueDate # NULL
           /\ items[i].status # "DONE") =>
              \A d \in ViewTicks :
                  dayOf(d) >= dayOf(items[i].dueDate) =>
                      i \in inboxIds(items[i].userId, d)

\* C7 witness: an Inbox item completed on day 0 is set back to a status that
\* is not completed on a later day.
C7_Witness ==
    /\ isInboxUpdate
    /\ served
    /\ last.status \in {"not_started", "in_progress"}
    /\ last.existingItem[1].status = "DONE"
    /\ last.existingItem[1].dueDate # NULL
    /\ last.existingItem[1].completedAt # NULL
    /\ dayOf(last.existingItem[1].completedAt) < dayOf(now)

\* C8: getNextStatus maps not_started to in_progress, in_progress to
\* completed and completed to not_started, three applications return the
\* starting status, and the cycle operation of each hook requests the
\* successor of the status of the item it was given.
C8_Successor(s) ==
    CASE s = "not_started" -> "in_progress"
      [] s = "in_progress" -> "completed"
      [] s = "completed" -> "not_started"
C8_StatusCycle ==
    /\ \A s \in InboxItemStatus :
          /\ getNextStatus(s) = C8_Successor(s)
          /\ getNextStatus(getNextStatus(getNextStatus(s))) = s
    /\ (last.op \in {"useInboxItems.cycleStatus", "useBacklogItems.cycleStatus"}
        /\ last.existingItem # << >>) =>
           last.status =
               C8_Successor(mapItemStatusToUI(last.existingItem[1].status))

\* C8 witness: the Backlog hook cycles a completed item, the wrap-around case.
C8_Witness ==
    /\ last.op = "useBacklogItems.cycleStatus"
    /\ served
    /\ last.existingItem[1].status = "DONE"

\* C9: a status update of updateInboxItem changes completedAt only when it
\* moves the item into completed (to the current time) or out of completed
\* (to null); completed to completed leaves completedAt unchanged, and an
\* update between not_started and in_progress leaves it null.  Stated for
\* Inbox items whose completedAt agreed with their status before the update.
C9_CompletedAtFrame ==
    (/\ isInboxUpdate
     /\ served
     /\ last.status # "none"
     /\ last.existingItem[1].dueDate # NULL
     /\ (last.existingItem[1].completedAt # NULL
            <=> last.existingItem[1].status = "DONE")) =>
        LET before == last.existingItem[1]
            after == items[last.id]
        IN /\ (before.status # "DONE" /\ after.status = "DONE") =>
                  after.completedAt = now
           /\ (before.status = "DONE" /\ after.status # "DONE") =>
                  after.completedAt = NULL
           /\ (before.status = "DONE" /\ after.status = "DONE") =>
                  after.completedAt = before.completedAt
           /\ (before.status # "DONE" /\ after.status # "DONE") =>
                  after.completedAt = NULL

\* C10: moveBacklogToInbox leaves the item with dueDate at the start of the
\* target date (today when none is given), status not_started and
\* completedAt null, whatever its prior status and completedAt.
C10_MoveToInboxResets ==
    (last.op = "moveBacklogToInbox" /\ served) =>
        LET after == items[last.id]
            target == IF last.date = NULL THEN now ELSE last.date
        IN /\ after.dueDate # NULL
           /\ after.dueDate % TicksPerDay = 0
           /\ after.dueDate <= target
           /\ target < after.dueDate + TicksPerDay
           /\ after.status = "TODO"
           /\ mapItemStatusToUI(after.status) = "not_started"
           /\ after.completedAt = NULL

\* C10 witness: a completed Backlog item with completedAt set is moved to
\* the Inbox with no date given, on the second day of the clock.
C10_Witness ==
    /\ last.op = "moveBacklogToInbox"
    /\ served
    /\ last.date = NULL
    /\ last.existingItem[1].status = "DONE"
    /\ last.existingItem[1].completedAt # NULL
    /\ dayOf(now) > 0

\* C11: a successful moveInboxToBacklog changes only the dueDate (to null)
\* and the order of the moved item; its stored status (IN_REVIEW included),
\* completedAt, title and deletedAt are unchanged and no other item changes.
C11_MoveToBacklogFrame ==
    [][(last'.op = "moveInboxToBacklog" /\ last'.error = "none") =>
          /\ Len(items') = Len(items)
          /\ \A j \in 1..Len(items) : j # last'.id => items'[j] = items[j]
          /\ items'[last'.id].dueDate = NULL
          /\ items'[last'.id].status = items[last'.id].status
          /\ items'[last'.id].completedAt = items[last'.id].completedAt
          /\ items'[last'.id].title = items[last'.id].title
          /\ items'[last'.id].deletedAt = items[last'.id].deletedAt
          /\ items'[last'.id].userId = items[last'.id].userId]_vars

\* C11 witness: an IN_REVIEW Inbox item was moved while the table holds a
\* second row.
C11_Witness ==
    /\ last.op = "moveInboxToBacklog"
    /\ served
    /\ last.existingItem[1].status = "IN_REVIEW"
    /\ items[last.id].status = "IN_REVIEW"
    /\ Len(items) = 2

\* C12: after a successful moveInboxToBacklog or addBacklogItem the moved or
\* created item has an order strictly greater than that of every other
\* non-deleted Backlog item of its owner and is the first element of
\* getBacklogItems().
C12_TopOfBacklog ==
    (last.op \in {"moveInboxToBacklog", "addBacklogItem"} /\ last.error = "none") =>
        LET owner == items[last.id].userId
        IN /\ last.id \in backlogIds(owner)
           /\ \A j \in backlogIds(owner) \ {last.id} :
                 items[j].order < items[last.id].order
           /\ backlogResults(owner) # {}
           /\ \A s \in backlogResults(owner) : s[1] = last.id

\* C12 witness: an Inbox item whose order was not above the order of the
\* owner's Backlog item is moved to the Backlog.
C12_Witness ==
    /\ last.op = "moveInboxToBacklog"
    /\ served
    /\ \E j \in backlogIds(items[last.id].userId) \ {last.id} :
          last.existingItem[1].order <= items[j].order

\* C13: moveBacklogToInbox fails with not-found when the id does not exist,
\* is soft-deleted, is owned by another user or the item has a dueDate;
\* moveInboxToBacklog fails with not-found in the same cases with a null
\* dueDate as the last one; such a failure changes no item of the table.
C13_Missing(id) == id \notin ItemIds
C13_SoftDeleted(id) == id \in ItemIds /\ items[id].deletedAt # NULL
C13_OtherOwner(user, id) == id \in ItemIds /\ items[id].userId # user
C13_InInbox(id) == id \in ItemIds /\ items[id].dueDate # NULL
C13_InBacklog(id) == id \in ItemIds /\ items[id].dueDate = NULL
C13_MoveNotFound ==
    [][/\ (/\ last'.op = "moveBacklogToInbox"
           /\ call'.user \in StoreUsers
           /\ \/ C13_Missing(last'.id)
              \/ C13_SoftDeleted(last'.id)
              \/ C13_OtherOwner(call'.user, last'.id)
              \/ C13_InInbox(last'.id)) =>
             (last'.error = "NotFound" /\ items' = items)
       /\ (/\ last'.op = "moveInboxToBacklog"
           /\ call'.user \in StoreUsers
           /\ \/ C13_Missing(last'.id)
              \/ C13_SoftDeleted(last'.id)
              \/ C13_OtherOwner(call'.user, last'.id)
              \/ C13_InBacklog(last'.id)) =>
             (last'.error = "NotFound" /\ items' = items)]_vars

\* C13 witness: moveInboxToBacklog was refused for a row that exists, is not
\* deleted and is in the Inbox, that is, for a row of another owner.
C13_Witness ==
    /\ last.op = "moveInboxToBacklog"
    /\ last.error = "NotFound"
    /\ last.id \in ItemIds
    /\ items[last.id].userId # call.user
    /\ items[last.id].deletedAt = NULL
    /\ items[last.id].dueDate # NULL

\* C14: an update whose patch carries a title that is empty after trimming
\* fails with a validation error and changes no stored item, also when the
\* patch carries a valid status, date or order as well; addInboxItem and
\* addBacklogItem with such a title create no item; and no stored item has a
\* title that is empty or begins or ends with whitespace.
C14_Blank(title) == \A k \in 1..Len(title) : title[k] = " "
C14_TitleValidation ==
    /\ [][(/\ last'.op \in {"updateInboxItem", "updateBacklogItem",
                             "addInboxItem", "addBacklogItem"}
           /\ call'.user \in StoreUsers
           /\ call'.title # << >>
           /\ C14_Blank(call'.title[1])) =>
             (last'.error = "ValidationError" /\ items' = items)]_vars
    /\ [](\A i \in ItemIds :
             /\ items[i].title # << >>
             /\ Head(items[i].title) # " "
             /\ items[i].title[Len(items[i].title)] # " ")

\* C14 witness: a patch with a blank title and the status completed was
\* refused for a live row that is not completed.
C14_Witness ==
    /\ last.op = "updateInboxItem"
    /\ last.error = "ValidationError"
    /\ last.status = "completed"
    /\ last.id \in ItemIds
    /\ items[last.id].userId = call.user
    /\ items[last.id].deletedAt = NULL
    /\ items[last.id].status # "DONE"

\* C15: deleteInboxItem on an existing, non-deleted item of the caller
\* succeeds and sets deletedAt; deleteInboxItem on an item that a delete has
\* already marked fails with not-found and leaves every field of it, and the
\* rest of the table, unchanged.
C15_DeleteTwice ==
    [][(last'.op = "deleteInboxItem" /\ call'.user \in StoreUsers
        /\ last'.id \in ItemIds) =>
          /\ (/\ items[last'.id].userId = call'.user
              /\ items[last'.id].deletedAt = NULL) =>
                /\ last'.error = "none"
                /\ items'[last'.id].deletedAt # NULL
                /\ items'[last'.id].deletedAt = now
                /\ items' = [items EXCEPT ![last'.id].deletedAt =
                                             items'[last'.id].deletedAt]
          /\ (items[last'.id].deletedAt # NULL) =>
                /\ last'.error = "NotFound"
                /\ items' = items]_vars

\* C15 witness: the owner's second delete of an item was refused.
C15_Witness ==
    /\ last.op = "deleteInboxItem"
    /\ last.error = "NotFound"
    /\ last.id \in ItemIds
    /\ items[last.id].userId = call.user
    /\ items[last.id].deletedAt # NULL

\* C16: an item whose deletedAt is non-null is returned neither by
\* getInboxItems for any date nor by getBacklogItems, and no operation sets
\* a non-null deletedAt back to null.
C16_DeletedStaysHidden ==
    /\ [](\A i \in ItemIds :
             items[i].deletedAt # NULL =>
                \A u \in StoreUsers :
                   /\ i \notin backlogRowIds(u)
                   /\ \A s \in backlogResults(u) : \A k \in DOMAIN s : s[k] # i
                   /\ \A d \in ViewTicks :
                         /\ i \notin inboxIds(u, d)
                         /\ \A s \in inboxResults(u, d) : \A k \in DOMAIN s : s[k] # i)
    /\ [][\A i \in ItemIds :
             items[i].deletedAt # NULL =>
                (i \in 1..Len(items') /\ items'[i].deletedAt # NULL)]_vars

\* C16 witness: a deleted row that every rule of the Inbox query and, after
\* a move, the Backlog query would otherwise return: it has been completed
\* and lies in the Backlog.
C16_Witness ==
    \E i \in ItemIds :
        /\ items[i].deletedAt # NULL
        /\ items[i].completedAt # NULL
        /\ items[i].dueDate = NULL

\* C17: the order a create or move operation assigns in a list (the owner's
\* Backlog, or the owner's Inbox items due on one date) is the current
\* maximum order of that list plus one, 0 when the list is empty, and is a
\* value never before assigned to any item in that list, items since
\* soft-deleted or moved out included.
C17_IsAssignment(reqst) ==
    /\ reqst.op \in {"addInboxItem", "addBacklogItem",
                     "moveInboxToBacklog", "moveBacklogToInbox"}
    /\ reqst.error = "none"
\* The other non-deleted rows of the list that row `id` is in.
C17_Others(id) ==
    {j \in ItemIds \ {id} :
        /\ items[j].userId = items[id].userId
        /\ items[j].deletedAt = NULL
        /\ partitionOf(items[j].dueDate) = partitionOf(items[id].dueDate)}
C17_MaxPlusOne(id) ==
    /\ C17_Others(id) = {} => items[id].order = 0
    /\ C17_Others(id) # {} =>
          /\ \E j \in C17_Others(id) : items[id].order = items[j].order + 1
          /\ \A j \in C17_Others(id) : items[id].order > items[j].order
C17_OrderNeverReused ==
    /\ [](C17_IsAssignment(last) => C17_MaxPlusOne(last.id))
    /\ [][C17_IsAssignment(last') =>
             assignedBy(items', last') \notin assigned]_vars

\* C17 as amended: the value is the maximum order of the non-deleted items
\* of the list plus one, 0 when there is none, hence above the order of
\* every non-deleted item of the list.
C17_OrderAboveLiveItems ==
    C17_IsAssignment(last) => C17_MaxPlusOne(last.id)

\* C17 witness: an order is assigned in a list that holds another
\* non-deleted item.
C17_Witness ==
    /\ C17_IsAssignment(last)
    /\ C17_Others(last.id) # {}
    /\ items[last.id].order = 1

\* C18: getBacklogItems returns the caller's non-deleted items whose dueDate
\* is null, sorted by descending order; items A and then B created one after
\* the other in an empty Backlog get the orders 0 and 1 and getBacklogItems
\* returns [B, A].
C18_Created(op) == last.op = op /\ last.error = "none"
C18_BacklogSortedDescending ==
    /\ \A u \in StoreUsers :
          /\ backlogResults(u) # {}
          /\ \A s \in backlogResults(u) :
                /\ {s[k] : k \in DOMAIN s} =
                      {i \in ItemIds : /\ items[i].userId = u
                                       /\ items[i].deletedAt = NULL
                                       /\ items[i].dueDate = NULL}
                /\ \A k, l \in DOMAIN s :
                      /\ k # l => s[k] # s[l]
                      /\ k < l => items[s[k]].order >= items[s[l]].order
    /\ C18_Created("addBacklogItem") =>
          LET b == last.id
              owner == items[b].userId
          IN /\ backlogIds(owner) = {b} => items[b].order = 0
             /\ \A a \in ItemIds \ {b} :
                   (backlogIds(owner) = {a, b} /\ items[a].order = 0) =>
                      /\ items[b].order = 1
                      /\ backlogResults(owner) = {<<b, a>>}

\* C18 witness: B has been created in a Backlog that held only A, whose
\* order is 0.
C18_Witness ==
    /\ C18_Created("addBacklogItem")
    /\ \E a \in ItemIds \ {last.id} :
          /\ backlogIds(items[last.id].userId) = {a, last.id}
          /\ items[a].order = 0
          /\ a < last.id

\* C19: getInboxItems(D) returns its items sorted by ascending order; items
\* X and then Y created one after the other for a date that lists no other
\* item get the orders 0 and 1, the status not_started and a null
\* completedAt, and getInboxItems of that date returns [X, Y].
C19_InboxSortedAscending ==
    /\ \A u \in StoreUsers, d \in ViewTicks :
          /\ inboxResults(u, d) # {}
          /\ \A s \in inboxResults(u, d) :
                /\ {s[k] : k \in DOMAIN s} = inboxIds(u, d)
                /\ \A k, l \in DOMAIN s :
                      /\ k # l => s[k] # s[l]
                      /\ k < l => items[s[k]].order <= items[s[l]].order
    /\ C18_Created("addInboxItem") =>
          LET y == last.id
              owner == items[y].userId
              day == items[y].dueDate
          IN /\ items[y].status = "TODO"
             /\ mapItemStatusToUI(items[y].status) = "not_started"
             /\ items[y].completedAt = NULL
             /\ inboxWhere(owner, day) = {y} => items[y].order = 0
             /\ \A x \in ItemIds \ {y} :
                   (/\ inboxWhere(owner, day) = {x, y}
                    /\ items[x].dueDate # NULL
                    /\ sameDay(items[x].dueDate, day)
                    /\ items[x].order = 0) =>
                      /\ items[y].order = 1
                      /\ inboxResults(owner, day) = {<<x, y>>}

\* C19 witness: Y has been created for the day of X, the only other item
\* listed for that day, whose order is 0 and which is still not started.
C19_Witness ==
    /\ C18_Created("addInboxItem")
    /\ \E x \in ItemIds \ {last.id} :
          /\ inboxWhere(items[last.id].userId, items[last.id].dueDate) = {x, last.id}
          /\ items[x].dueDate = items[last.id].dueDate
          /\ items[x].order = 0
          /\ items[x].status = "TODO"
          /\ items[x].completedAt = NULL
          /\ x < last.id

\* C20: when two add operations of one owner for one list (two
\* addBacklogItem calls, or two addInboxItem calls for the same due date)
\* both read the maximum order before either creates its item, both calls
\* succeed and the two created items have the same order; nothing detects,
\* rejects or retries this.
C20_BothReadFirst(c, d) ==
    /\ c.seen # NULL
    /\ d.seen # NULL
    /\ c.seen = d.seen
    /\ c.op = d.op
    /\ c.userId = d.userId
    /\ c.dueDate = d.dueDate
C20_OrderCollision ==
    \A p, q \in Procs :
        (/\ p # q
         /\ inflight[p].pc = "done"
         /\ inflight[q].pc = "done"
         /\ C20_BothReadFirst(inflight[p], inflight[q])) =>
            LET c == inflight[p]
                d == inflight[q]
            IN /\ c.error = "none"
               /\ d.error = "none"
               /\ c.id \in ItemIds
               /\ d.id \in ItemIds
               /\ c.id # d.id
               /\ items[c.id].order = items[d.id].order
               /\ items[c.id].deletedAt = NULL
               /\ items[d.id].deletedAt = NULL
               /\ Len(items) = c.seen + 2

\* C20 witness: two addInboxItem calls of one owner for one day have both
\* returned after both had read the table before either created its row.
C20_Witness ==
    /\ inflight["p1"].pc = "done"
    /\ inflight["p2"].pc = "done"
    /\ inflight["p1"].op = "addInboxItem"
    /\ C20_BothReadFirst(inflight["p1"], inflight["p2"])

\* C21: a server action called without an authenticated user fails with the
\* authentication error, returns no row and leaves every stored row as it
\* was; this holds for each of the nine actions, whatever its arguments.
C21_ServerActions ==
    {"getInboxItems", "getBacklogItems", "addInboxItem", "addBacklogItem",
     "updateInboxItem", "updateBacklogItem", "moveInboxToBacklog",
     "moveBacklogToInbox", "deleteInboxItem"}
C21_Unauthenticated ==
    [][call'.user = NoUser =>
          /\ last'.op \in C21_ServerActions
          /\ last'.error = "AuthenticationRequired"
          /\ last'.existingItem = << >>
          /\ items' = items]_vars
\* A move to the Inbox is refused for want of a session while the Backlog
\* row it names is there to be moved.
C21_Witness ==
    /\ call.user = NoUser
    /\ last.op = "moveBacklogToInbox"
    /\ last.error = "AuthenticationRequired"
    /\ \E i \in ItemIds : items[i].deletedAt = NULL /\ items[i].dueDate = NULL

\* C22: a request made as one user leaves every row of another owner as it
\* was, finds and creates only rows owned by the caller, and leaves the
\* Backlog list and every Inbox list of every other user as they were.
C22_OwnRowsOnly ==
    [][\A a \in StoreUsers :
          call'.user = a =>
             /\ \A i \in ItemIds : items[i].userId # a => items'[i] = items[i]
             /\ \A i \in 1..Len(items') : i \notin ItemIds => items'[i].userId = a
             /\ last'.existingItem # << >> => last'.existingItem[1].userId = a
             /\ \A b \in StoreUsers \ {a} :
                   /\ getBacklogItems(b)' = getBacklogItems(b)
                   /\ \A d \in StoreDates \ {NULL} :
                         getInboxItems(b, d)' = getInboxItems(b, d)]_vars
\* One user's delete is refused for a live row of the other owner.
C22_Witness ==
    /\ last.op = "deleteInboxItem"
    /\ last.error = "NotFound"
    /\ last.id \in ItemIds
    /\ items[last.id].userId # call.user
    /\ items[last.id].deletedAt = NULL
    /\ \E i \in ItemIds : items[i].userId = call.user

\* C24: an update through the Inbox action is never served for a row that
\* is in the Backlog (dueDate null), and an update through the Backlog action
\* is never served for a row that is in the Inbox (dueDate set).
C24_BacklogOnly ==
    (last.op = "updateBacklogItem" /\ served) => last.existingItem[1].dueDate = NULL
C24_OtherListNotFound ==
    /\ (last.op = "updateInboxItem" /\ served) => last.existingItem[1].dueDate # NULL
    /\ C24_BacklogOnly

\* C25: two different live rows of one owner that are both in the Backlog,
\* or both in the Inbox with due dates on the same day, have different orders.
C25_DistinctOrders ==
    \A i \in ItemIds : \A j \in ItemIds :
        (/\ i # j
         /\ items[i].userId = items[j].userId
         /\ items[i].deletedAt = NULL
         /\ items[j].deletedAt = NULL
         /\ partitionOf(items[i].dueDate) = partitionOf(items[j].dueDate))
        => items[i].order # items[j].order

\* C26: a served update whose patch is a title alone changes the title
\* of the row it names and nothing else in the store; a served update whose
\* patch is a status alone changes at most the status and completedAt of that
\* row and nothing else in the store.
C26_IsUpdate == last'.op \in {"updateInboxItem", "updateBacklogItem"}
C27_RoundTrip ==
    \A u \in InboxItemStatus :
        /\ mapItemStatusToUI(mapUIToItemStatus(u)) = u
        /\ mapUIToItemStatus(u) # "IN_REVIEW"
C27_WritesStatus ==
    /\ last'.error = "none"
    /\ \/ last'.status # "none"
       \/ last'.op = "moveBacklogToInbox"
C27_InReviewNeverStored ==
    /\ []C27_RoundTrip
    /\ [][/\ \A i \in 1..Len(items') :
                items'[i].status = "IN_REVIEW" =>
                   i \in ItemIds /\ items[i].status = "IN_REVIEW"
          /\ C27_WritesStatus =>
                items'[last'.id].status \in {"TODO", "IN_PROGRESS", "DONE"}]_vars
\* An update with the status 'in_progress' was served for the row stored as
\* IN_REVIEW, which is now IN_PROGRESS.
C27_Witness ==
    /\ last.op = "updateInboxItem"
    /\ last.error = "none"
    /\ last.status = "in_progress"
    /\ last.existingItem[1].status = "IN_REVIEW"
    /\ items[last.id].status = "IN_PROGRESS"

\* C30: a row whose deletedAt is set keeps its title, status, dueDate, order
\* and completedAt in every later step, whichever request takes the step.
C30_DeletedRowFrozen ==
    [][\A i \in ItemIds :
          items[i].deletedAt # NULL =>
             /\ items'[i].title = items[i].title
             /\ items'[i].status = items[i].status
             /\ items'[i].dueDate = items[i].dueDate
             /\ items'[i].order = items[i].order
             /\ items'[i].completedAt = items[i].completedAt]_vars

\* C29: at most one onCreateItem call is pending, and a submit made while
\* one is pending starts none; a submit with a title that is empty after
\* trimming starts none; isCreating is true exactly while a call is pending;
\* the call is made with the trimmed title; and a title that is not empty
\* becomes empty only when the call resolves or the user empties the input.
C29_Pending == {p \in Procs : inflight[p].pc = "onCreateItem"}
C29_OneCallAtATime ==
    /\ Cardinality(C29_Pending) <= 1
    /\ hook.isCreating <=> C29_Pending # {}
C29_Submit ==
    last'.op = "handleSubmit" =>
       /\ (C29_Pending # {} \/ trim(hook.title) = << >>) =>
              inflight' = inflight /\ call'.title = << >> /\ hook' = hook
       /\ inflight' # inflight =>
              \E p \in Procs : inflight'[p] = creating(trim(hook.title))
C29_Cleared ==
    (hook.title # << >> /\ hook'.title = << >>) =>
        \/ last'.op = "addBacklogItem"
        \/ last'.op = "setTitle"
C29_Settled ==
    /\ last'.op \in {"onCreateItem", "addBacklogItem"} => ~hook'.isCreating
    /\ last'.op = "onCreateItem" => hook'.title = hook.title
C29_ItemCreation ==
    /\ []C29_OneCallAtATime
    /\ [][C29_Submit /\ C29_Cleared /\ C29_Settled]_vars
\* A submit with a title that is not blank was made while a call was pending,
\* and made no call.
C29_Witness ==
    /\ last.op = "handleSubmit"
    /\ call.title = << >>
    /\ trim(hook.title) # << >>
    /\ hook.isCreating
    /\ C29_Pending # {}

\* C28: whenever no call of the hooks is pending, the displayed list
\* (currentItems) is a result getInboxItems gives the signed-in user for the
\* displayed currentDate, in ascending order; and currentDate changes only in
\* a step in which the user picks a date.
C28_Settled == \A p \in Procs : inflight[p].pc = "idle"
C28_ServerLists ==
    {inboxItemsOf("u1", parseDate(hook.currentDate), s) :
        s \in inboxResults("u1", parseDate(hook.currentDate))}
C28_ListOfCurrentDate == C28_Settled => currentItems \in C28_ServerLists
C28_DateByNavigation ==
    [][hook'.currentDate # hook.currentDate =>
          last'.op = "changeDateAndFetch"]_vars
C28_DisplayedList == []C28_ListOfCurrentDate /\ C28_DateByNavigation

\* C23: in the cycleStatus flow of both hooks, the click puts the next status
\* on the clicked local item, marks its id as loading and changes no other
\* local item; when the update fails, the local item is put back to the
\* clicked item and no other local item changes; when it succeeds, the local
\* item is the item the server returned; when the flow ends, the id is no
\* longer in loadingItemIds.
C23_Ends(p, pc) == inflight[p].pc = pc /\ inflight'[p].pc # pc
C23_Replaced(before, after, id, item) ==
    /\ Len(after) = Len(before)
    /\ \A k \in 1..Len(before) :
          after[k] = IF before[k].id = id THEN item ELSE before[k]
C23_Shown(before, after, id) ==
    /\ Len(after) = Len(before)
    /\ \A k \in 1..Len(before) :
          after[k] = IF before[k].id = id
                     THEN [before[k] EXCEPT !.status = getNextStatus(@)]
                     ELSE before[k]
C23_Click ==
    /\ last'.op = "useInboxItems.cycleStatus" =>
          /\ C23_Shown(hook.inboxItems, hook'.inboxItems, last'.id)
          /\ last'.id \in hook'.loadingItemIds
    /\ last'.op = "useBacklogItems.cycleStatus" =>
          /\ C23_Shown(hook.backlogItems, hook'.backlogItems, last'.id)
          /\ last'.id \in hook'.backlogLoadingItemIds
C23_Failed ==
    \A p \in Procs :
        /\ (C23_Ends(p, "updateInboxItem") /\ last'.error # "none") =>
              C23_Replaced(hook.inboxItems, hook'.inboxItems,
                           inflight[p].item.id, inflight[p].item)
        /\ (C23_Ends(p, "updateBacklogItem") /\ last'.error # "none") =>
              C23_Replaced(hook.backlogItems, hook'.backlogItems,
                           inflight[p].item.id, inflight[p].item)
C23_InboxReturned(p) == updatedInboxItem(inflight[p].item.id, items'[inflight[p].item.id])
C23_InboxIsReturned(p) ==
    \A k \in 1..Len(hook'.inboxItems) :
        hook'.inboxItems[k].id = inflight[p].item.id =>
           hook'.inboxItems[k] = C23_InboxReturned(p)
C23_BacklogSucceeded ==
    \A p \in Procs :
        (C23_Ends(p, "updateBacklogItem") /\ last'.error = "none") =>
           \A k \in 1..Len(hook'.backlogItems) :
               hook'.backlogItems[k].id = inflight[p].item.id =>
                  hook'.backlogItems[k] =
                     updatedBacklogItem(inflight[p].item.id,
                                        items'[inflight[p].item.id])
C23_InboxSucceeded ==
    \A p \in Procs :
        (C23_Ends(p, "updateInboxItem") /\ last'.error = "none") =>
           C23_InboxIsReturned(p)
C23_Unloaded ==
    \A p \in Procs :
        /\ (inflight[p].pc \in {"updateInboxItem", "getInboxItems"}
            /\ inflight'[p].pc = "idle") =>
               inflight[p].cycled \notin hook'.loadingItemIds
        /\ C23_Ends(p, "updateBacklogItem") =>
               inflight[p].cycled \notin hook'.backlogLoadingItemIds
C23_OptimisticCycle ==
    [][/\ C23_Click
       /\ C23_Failed
       /\ C23_InboxSucceeded
       /\ C23_BacklogSucceeded
       /\ C23_Unloaded]_vars

\* C23 as amended: as above, except that a successful Inbox update whose
\* returned item has another date than the clicked item does not put the
\* returned item into the list: the hook then refetches the list for the date
\* that was current at the click, and clears the loading flag when that
\* refetch has returned or failed.
C23_SameDate(p) == C23_InboxReturned(p).date = inflight[p].item.date
C23_InboxSucceededSameDate ==
    \A p \in Procs :
        (C23_Ends(p, "updateInboxItem") /\ last'.error = "none") =>
           IF C23_SameDate(p)
           THEN C23_InboxIsReturned(p) /\ inflight'[p].pc = "idle"
           ELSE /\ inflight'[p].pc = "getInboxItems"
                /\ inflight'[p].date = inflight[p].date
                /\ inflight'[p].cycled = inflight[p].item.id
                /\ hook'.inboxItems = hook.inboxItems
C23_OptimisticCycleOrRefetch ==
    [][/\ C23_Click
       /\ C23_Failed
       /\ C23_InboxSucceededSameDate
       /\ C23_BacklogSucceeded
       /\ C23_Unloaded]_vars
\* A successful status update has returned an item with another date than
\* the clicked one, and the refetch it started is pending.
C23_Witness ==
    /\ last.op = "updateInboxItem"
    /\ last.error = "none"
    /\ inflight["p1"].pc = "getInboxItems"
    /\ inflight["p1"].cycled # 0
    /\ inflight["p1"].cycled \in hook.loadingItemIds

====
